---- MODULE Spec2Model ----
(***************************************************************************)
(* The connection session manager of the Omron BLE hook                    *)
(* (src/hooks/useOmron.ts, useOmronBluetooth): scan, connect, discovery,   *)
(* notification set-up, the RACP exchange and disconnect, as the           *)
(* interleaving of the hook's handlers with the BLE transport.             *)
(*                                                                         *)
(* A handler runs from one await to the next as one step.  A transport     *)
(* promise is resolved by the environment, successfully or with an error.  *)
(* React state set by a handler is what the next handler reads (a render   *)
(* is committed between two transport events).                             *)
(***************************************************************************)
EXTENDS Integers, Sequences, FiniteSets, TLC

\* ------------------------------------------------------------ bounds
\* A run is made under one configuration, each widening one side
\* of the environment (see the limits below the inputs).
\* Calls of connectToDevice in a run of the "reconnect" configuration.
MaxConnects == 2
\* Calls of disconnect in a run of the "teardown" configuration.
MaxDisconnects == 2
\* Calls of scanDevices in a run of the "scan" configuration.
MaxScans == 2
\* Transport events (notifications, indications, their errors) in a run of
\* the "racp" configuration, and of the "session" configuration.
MaxEvents == 2
MaxEventsSession == 5
\* Invocations of the scan callback in a run of the "discovery" configuration.
MaxSightings == 3

\* ------------------------------------------------------------ constants
BLOOD_PRESSURE_MEASUREMENT == "2A35"
WEIGHT_MEASUREMENT == "2A9D"
BODY_COMPOSITION_MEASUREMENT == "2A9C"
TEMPERATURE_MEASUREMENT == "2A1C"
RECORD_ACCESS_CONTROL_POINT == "2A52"
OMRON_PLX_SPOT_CHECK == "6E4000F1"
BATTERY_LEVEL == "2A19"

REPORT_STORED_RECORDS == 1
REPORT_NUMBER_OF_STORED_RECORDS == 4
NUMBER_OF_STORED_RECORDS_RESPONSE == 5
RESPONSE_CODE == 6
ALL_RECORDS == 1

OMRON_COMPANY_ID == 526             \* 0x020e

\* connectionState, as the strings the hook stores.
Disconnected == "Disconnected"
Connecting == "Connecting..."
Connected == "Connected"
ConnectionFailed == "Connection Failed"
\* The adapter state the mount effect waits for.
PoweredOn == "PoweredOn"

\* null for connectedDevice; device ids are 1, 2.
NoDevice == 0

\* The GATT table of each device: its services, each a list of
\* characteristic uuids.  Device 1 is a scale with a record access control
\* point; device 2 is a scale without one; device 3 exposes every
\* characteristic isMeasurementCharacteristic accepts, and no control point.
Gatt(d) ==
  IF d = 1
    THEN << <<BATTERY_LEVEL, WEIGHT_MEASUREMENT>>, <<RECORD_ACCESS_CONTROL_POINT>> >>
  ELSE IF d = 2
    THEN << <<WEIGHT_MEASUREMENT>> >>
  ELSE IF d = 4
    THEN << <<BLOOD_PRESSURE_MEASUREMENT>> >>
  ELSE << <<BLOOD_PRESSURE_MEASUREMENT, WEIGHT_MEASUREMENT>>,
          <<TEMPERATURE_MEASUREMENT, BODY_COMPOSITION_MEASUREMENT,
            OMRON_PLX_SPOT_CHECK>> >>

\* The subscription the mount effect pushes: manager.onStateChange.
AdapterHandle == [sess |-> 0, char |-> "adapter", dev |-> NoDevice]

VARIABLES
  connectedDevice,   \* useState connectedDevice: NoDevice or a device id
  connectionState,   \* useState connectionState
  measurementData,   \* useState measurementData: the accumulated measurements
  logs,              \* useState logs
  subscriptions,     \* subscriptionsRef.current: the handles held
  scanTimeoutRef,    \* scanTimeoutRef.current is set
  scanning,          \* transport: a device scan is running
  timers,            \* pending scan timers (setTimeout not yet fired or cleared)
  monitors,          \* transport: the handles whose callback can still be invoked
  link,              \* transport: link[d], device d is connected
  tasks,             \* the calls of connectToDevice, each with its position
  disc,              \* the calls of disconnect awaiting cancelDeviceConnection
  writes,            \* transport: the control-point writes issued, in order
  bulkPending,       \* REPORT_STORED_RECORDS writes not yet resolved
  delivered,         \* transport: the events delivered to the callbacks, in order
  calls,             \* the operations the application called and the adapter
                     \* states reported to the hook, in order
  fault,             \* an exception left a handler
  devices,           \* useState devices: the discovered devices, in order
  sightings,         \* transport: the scan callback's invocations, in order
  config             \* the configuration of the run

vars == <<connectedDevice, connectionState, measurementData, logs, subscriptions,
          scanTimeoutRef, scanning, timers, monitors, link, tasks, disc, writes,
          bulkPending, delivered, calls, fault, config, devices,
          sightings>>

\* What the application reads of the hook, with the handles it holds.
hookState == <<devices, connectedDevice, connectionState, measurementData, logs,
               subscriptions>>

\* Everything the transport sees of the hook.
transportState == <<scanning, timers, monitors, link, writes, bulkPending>>

\* ------------------------------------------------------------ helpers
Range(s) == {s[i] : i \in 1..Len(s)}

Max(a, b) == IF a >= b THEN a ELSE b

Last(s) == s[Len(s)]

\* The number of entries of s that are in set.
Count(s, set) == Cardinality({i \in 1..Len(s) : s[i] \in set})

\* Array.prototype.slice(start) for start <= 0: slice(-k) keeps the last k
\* elements, and slice(-0) is slice(0), the whole array.
SliceFrom(s, start) ==
  LET from == IF start < 0 THEN Max(Len(s) + start, 0) ELSE start
  IN  SubSeq(s, from + 1, Len(s))

\* The hook's option logLimit, as passed to it in the run: 2, except in the
\* two configurations of the activity log.
logLimit ==
  IF config = "logLimit 1" THEN 1
  ELSE IF config = "logLimit 3" THEN 3 ELSE 2

\* setLogs(prev => [...prev.slice(-Math.max(logLimit - 1, 0)), entry])
addLog(prev, message) ==
  Append(SliceFrom(prev, 0 - Max(logLimit - 1, 0)), message)

RECURSIVE addLogs(_, _)
addLogs(prev, messages) ==
  IF messages = <<>> THEN prev
  ELSE addLogs(addLog(prev, Head(messages)), Tail(messages))

\* ------------------------------------------------------------ buffers
\* A Buffer is a sequence of bytes; byte offsets count from 0 as in the code.
\* A read beyond the end throws a RangeError.
CanRead(buffer, offset, n) == offset + n <= Len(buffer)

readUInt8(buffer, offset) == buffer[offset + 1]

readUInt16LE(buffer, offset) == buffer[offset + 1] + 256 * buffer[offset + 2]

\* (flags & mask) !== 0 for a one-bit mask 2^bit.
BitSet(flags, bit) == (flags \div (2 ^ bit)) % 2 = 1

\* ------------------------------------------------------------ decoders
\* uuid.toUpperCase().includes(id): the model names a characteristic by the
\* 16-bit id its uuid contains, so includes is equality of the ids.
isMeasurementCharacteristic(uuid) ==
  uuid \in {BLOOD_PRESSURE_MEASUREMENT, WEIGHT_MEASUREMENT,
            BODY_COMPOSITION_MEASUREMENT, TEMPERATURE_MEASUREMENT,
            OMRON_PLX_SPOT_CHECK}

\* The bytes parseWeightData reads: flags, the uint16 weight, and with flag
\* bit1 the 7-byte date-time.
parseWeightDataThrows(buffer) ==
  \/ ~CanRead(buffer, 0, 1)
  \/ ~CanRead(buffer, 1, 2)
  \/ BitSet(readUInt8(buffer, 0), 1) /\ ~CanRead(buffer, 3, 7)

\* weight = weightRaw * 0.005 kg, kept in grams (weightRaw * 5); the
\* timestamp is the device's <<year, month, day, hour, minute, second>>, or
\* <<>> for the capture time.
parseWeightData(buffer) ==
  LET flags == readUInt8(buffer, 0)
      weightRaw == readUInt16LE(buffer, 1)
  IN  [type |-> "weight",
       weight |-> weightRaw * 5,
       timestamp |-> IF BitSet(flags, 1)
                       THEN <<readUInt16LE(buffer, 3), readUInt8(buffer, 5),
                              readUInt8(buffer, 6), readUInt8(buffer, 7),
                              readUInt8(buffer, 8), readUInt8(buffer, 9)>>
                       ELSE <<>>,
       unit |-> "kg"]

\* The RangeError of a Buffer read beyond the end, as the outcome of a
\* decoder that made one.
RangeError == [type |-> "RangeError"]

\* A field the decoder leaves out (pulse: null; body composition: undefined).
Absent == [type |-> "absent"]

\* The date-time read at offset: year, month, day, hour, minute, second.
readDateTime(buffer, offset) ==
  <<readUInt16LE(buffer, offset), readUInt8(buffer, offset + 2),
    readUInt8(buffer, offset + 3), readUInt8(buffer, offset + 4),
    readUInt8(buffer, offset + 5), readUInt8(buffer, offset + 6)>>

\* readSFloat without the sign extension of mantissa and exponent.
readSFloatUnsigned(buffer, offset) ==
  LET raw == readUInt16LE(buffer, offset)
  IN  [mantissa |-> raw % 4096, exponent |-> raw \div 4096]

\* readSFloat with the exponent raw >> 12 taken as it is, unsigned.
readSFloatUnsignedExponent(buffer, offset) ==
  LET raw == readUInt16LE(buffer, offset)
      mantissa == raw % 4096
  IN  [mantissa |-> IF mantissa >= 2048 THEN mantissa - 4096 ELSE mantissa,
       exponent |-> raw \div 4096]

\* readSFloat at offset: the value signedMantissa * 10^signedExponent, kept
\* as the two integers.
readSFloat(buffer, offset) ==
  LET raw == readUInt16LE(buffer, offset)
      mantissa == raw % 4096            \* raw & 0x0fff
      exponent == raw \div 4096         \* raw >> 12
  IN  [mantissa |-> IF mantissa >= 2048 THEN mantissa - 4096 ELSE mantissa,
       exponent |-> IF exponent >= 8 THEN exponent - 16 ELSE exponent]

\* parseBloodPressureData reading the pulse at byte 7, with or without a
\* date-time before it (the buffer as long as parseBloodPressureData needs).
parseBloodPressureDataPulseAtSeven(buffer) ==
  IF ~CanRead(buffer, 0, 1) \/ ~CanRead(buffer, 1, 6) THEN RangeError
  ELSE LET flags == readUInt8(buffer, 0)
           offset == IF BitSet(flags, 1) THEN 14 ELSE 7
       IN  IF BitSet(flags, 1) /\ ~CanRead(buffer, 7, 7) THEN RangeError
           ELSE IF BitSet(flags, 2) /\ ~CanRead(buffer, offset, 2) THEN RangeError
           ELSE [type |-> "blood_pressure",
                 systolic |-> readSFloat(buffer, 1),
                 diastolic |-> readSFloat(buffer, 3),
                 meanArterialPressure |-> readSFloat(buffer, 5),
                 pulse |-> IF BitSet(flags, 2) THEN readSFloat(buffer, 7)
                           ELSE Absent,
                 timestamp |-> IF BitSet(flags, 1) THEN readDateTime(buffer, 7)
                               ELSE <<>>,
                 unit |-> "mmHg"]

\* parseBloodPressureData: flags, three SFLOATs, with bit1 the date-time,
\* with bit2 the pulse after it.
parseBloodPressureData(buffer) ==
  IF ~CanRead(buffer, 0, 1) \/ ~CanRead(buffer, 1, 6) THEN RangeError
  ELSE LET flags == readUInt8(buffer, 0)
           offset == IF BitSet(flags, 1) THEN 14 ELSE 7
       IN  IF BitSet(flags, 1) /\ ~CanRead(buffer, 7, 7) THEN RangeError
           ELSE IF BitSet(flags, 2) /\ ~CanRead(buffer, offset, 2) THEN RangeError
           ELSE [type |-> "blood_pressure",
                 systolic |-> readSFloat(buffer, 1),
                 diastolic |-> readSFloat(buffer, 3),
                 meanArterialPressure |-> readSFloat(buffer, 5),
                 pulse |-> IF BitSet(flags, 2) THEN readSFloat(buffer, offset)
                           ELSE Absent,
                 timestamp |-> IF BitSet(flags, 1) THEN readDateTime(buffer, 7)
                               ELSE <<>>,
                 unit |-> "mmHg"]

\* parseTemperatureData: flags, a 32-bit float (kept as its four bytes),
\* with bit1 the date-time; bit0 clear means the float is in Fahrenheit and
\* is converted.
parseTemperatureData(buffer) ==
  IF ~CanRead(buffer, 0, 1) \/ ~CanRead(buffer, 1, 4) THEN RangeError
  ELSE LET flags == readUInt8(buffer, 0)
       IN  IF BitSet(flags, 1) /\ ~CanRead(buffer, 5, 7) THEN RangeError
           ELSE [type |-> "temperature",
                 temperature |-> [floatLE |-> SubSeq(buffer, 2, 5),
                                  converted |-> ~BitSet(flags, 0)],
                 timestamp |-> IF BitSet(flags, 1) THEN readDateTime(buffer, 5)
                               ELSE <<>>,
                 unit |-> "C"]

\* readUInt16LE(offset) / 10, kept as the number of tenths.
Tenths(n) == [tenths |-> n]

\* parseBodyCompositionData: 16-bit flags, with bit1 the body fat and with
\* bit5 the muscle mass after it, both uint16 in tenths.
parseBodyCompositionData(buffer) ==
  IF ~CanRead(buffer, 0, 2) THEN RangeError
  ELSE LET flags == readUInt16LE(buffer, 0)
           offset == IF BitSet(flags, 1) THEN 4 ELSE 2
       IN  IF BitSet(flags, 1) /\ ~CanRead(buffer, 2, 2) THEN RangeError
           ELSE IF BitSet(flags, 5) /\ ~CanRead(buffer, offset, 2) THEN RangeError
           ELSE [type |-> "body_composition",
                 timestamp |-> <<>>,
                 bodyFatPercentage |-> IF BitSet(flags, 1)
                                         THEN Tenths(readUInt16LE(buffer, 2))
                                       ELSE Absent,
                 muscleMass |-> IF BitSet(flags, 5)
                                  THEN Tenths(readUInt16LE(buffer, offset))
                                ELSE Absent]

\* null, the absent result of parseMeasurementData.
NoMeasurement == [type |-> "none"]

\* The decoder parseMeasurementData hands the buffer to, by the first id
\* the uuid includes; NoMeasurement when it includes none of the four.
Decoded(uuid, buffer) ==
  IF uuid = BLOOD_PRESSURE_MEASUREMENT THEN parseBloodPressureData(buffer)
  ELSE IF uuid = WEIGHT_MEASUREMENT
    THEN (IF parseWeightDataThrows(buffer) THEN RangeError ELSE parseWeightData(buffer))
  ELSE IF uuid = TEMPERATURE_MEASUREMENT THEN parseTemperatureData(buffer)
  ELSE IF uuid = BODY_COMPOSITION_MEASUREMENT THEN parseBodyCompositionData(buffer)
  ELSE NoMeasurement

\* parseMeasurementData threw inside its try (and logged 'Parse error').
parseMeasurementDataThrows(uuid, buffer) == Decoded(uuid, buffer) = RangeError

\* parseMeasurementData: the decoder's result, null when it threw.
parseMeasurementData(uuid, buffer) ==
  IF parseMeasurementDataThrows(uuid, buffer) THEN NoMeasurement
  ELSE Decoded(uuid, buffer)

\* ------------------------------------------------------------ advertisements
\* null, the result of parseOmronManufacturerData for data that is not
\* Omron's and for data it could not read.
NoAdvertisingInfo == [numberOfUsers |-> 0]

\* (flags & 0b0011), without the + 1.
numberOfUsersRaw(flags) == flags % 4

\* (flags & 0b0011) + 1
numberOfUsersOf(flags) == (flags % 4) + 1

\* The test of the company id alone.
isOmronAnyType(companyId, type) == companyId = OMRON_COMPANY_ID

\* The negation of: companyId !== OMRON_COMPANY_ID || type !== 0x01
isOmron(companyId, type) == companyId = OMRON_COMPANY_ID /\ type = 1

\* A read of parseOmronManufacturerData goes beyond the buffer: the company
\* id and the type are read before they are tested; the flags and the three
\* bytes of every user slot are read only for Omron's data.
parseOmronManufacturerDataThrows(buffer) ==
  IF ~CanRead(buffer, 0, 2) \/ ~CanRead(buffer, 2, 1) THEN TRUE
  ELSE IF ~isOmron(readUInt16LE(buffer, 0), readUInt8(buffer, 2)) THEN FALSE
  ELSE IF ~CanRead(buffer, 3, 1) THEN TRUE
  ELSE \E i \in 0..(numberOfUsersOf(readUInt8(buffer, 3)) - 1) :
         ~CanRead(buffer, 4 + 3 * i, 2) \/ ~CanRead(buffer, 4 + 3 * i + 2, 1)

\* parseOmronManufacturerData that returns the user slots the buffer holds
\* in full when it ends before the last announced slot.
parseOmronManufacturerDataLenient(buffer) ==
  IF ~CanRead(buffer, 0, 4) THEN NoAdvertisingInfo
  ELSE IF ~isOmron(readUInt16LE(buffer, 0), readUInt8(buffer, 2)) THEN NoAdvertisingInfo
  ELSE LET flags == readUInt8(buffer, 3)
       IN  [pairable |-> BitSet(flags, 3),
            timeNotConfigured |-> BitSet(flags, 2),
            numberOfUsers |-> numberOfUsersOf(flags),
            users |-> [i \in {k \in 1..numberOfUsersOf(flags) : CanRead(buffer, 1 + 3 * k, 3)} |->
                         [index |-> i,
                          lastSequenceNumber |-> readUInt16LE(buffer, 4 + 3 * (i - 1)),
                          numberOfRecords |-> readUInt8(buffer, 4 + 3 * (i - 1) + 2)]]]

parseOmronManufacturerData(buffer) ==
  IF parseOmronManufacturerDataThrows(buffer) THEN NoAdvertisingInfo
  ELSE IF ~isOmron(readUInt16LE(buffer, 0), readUInt8(buffer, 2)) THEN NoAdvertisingInfo
  ELSE LET flags == readUInt8(buffer, 3)
       IN  [pairable |-> BitSet(flags, 3),
            timeNotConfigured |-> BitSet(flags, 2),
            numberOfUsers |-> numberOfUsersOf(flags),
            users |-> [i \in 1..numberOfUsersOf(flags) |->
                         [index |-> i,
                          lastSequenceNumber |-> readUInt16LE(buffer, 4 + 3 * (i - 1)),
                          numberOfRecords |-> readUInt8(buffer, 4 + 3 * (i - 1) + 2)]]]

\* Object.assign(device, parsed): the scanned device with the parsed fields.
Enriched(id, parsed) ==
  [id |-> id,
   pairable |-> parsed.pairable,
   timeNotConfigured |-> parsed.timeNotConfigured,
   numberOfUsers |-> parsed.numberOfUsers,
   users |-> parsed.users]

\* ------------------------------------------------------------ inputs
\* Manufacturer data: company id 0x020e little-endian, type, flags, slots.
AdvertOneUser == <<14, 2, 1, 8, 5, 0, 3>>             \* pairable, one user
AdvertTwoUsers == <<14, 2, 1, 5, 1, 1, 2, 7, 0, 9>>   \* time not set, two users
AdvertTruncated == <<14, 2, 1, 1, 5, 0, 3>>           \* two users, one slot
AdvertNotOmron == <<76, 0, 1, 8, 5, 0, 3>>

\* User slots with the extreme and a mixed-byte sequence number and count.
Slots ==
  {[lastSequenceNumber |-> 0, numberOfRecords |-> 255],
   [lastSequenceNumber |-> 258, numberOfRecords |-> 0],
   [lastSequenceNumber |-> 65535, numberOfRecords |-> 255],
   [lastSequenceNumber |-> 65535, numberOfRecords |-> 0]}

\* The bytes parseOmronManufacturerData reads these fields from: the
\* three-byte head (company id little-endian, type), the flags byte
\* (bit3 pairable, bit2 timeNotConfigured, bits0-1 the number of users - 1),
\* then per user the uint16-LE sequence number and the uint8 record count.
encodeAdvertisement(head, pairable, timeNotConfigured, users) ==
  [k \in 1..(4 + 3 * Len(users)) |->
     IF k <= 3 THEN head[k]
     ELSE IF k = 4
       THEN (IF pairable THEN 8 ELSE 0) + (IF timeNotConfigured THEN 4 ELSE 0)
            + (Len(users) - 1)
     ELSE LET user == users[((k - 5) \div 3) + 1]
          IN  IF (k - 5) % 3 = 0 THEN user.lastSequenceNumber % 256
              ELSE IF (k - 5) % 3 = 1 THEN user.lastSequenceNumber \div 256
              ELSE user.numberOfRecords]

\* Every Omron advertisement of one to four users over Slots.
ValidAdverts ==
  {encodeAdvertisement(<<14, 2, 1>>, p, t, users) :
     p \in BOOLEAN, t \in BOOLEAN, users \in UNION {[1..n -> Slots] : n \in 1..4}}

\* The valid advertisements, advertisements of one or two users under a
\* head that is not Omron's (another company, the company id big-endian,
\* another type), and every proper non-empty prefix of all of these.
AdvertInputs ==
  LET others == {encodeAdvertisement(head, p, t, users) :
                   head \in {<<76, 0, 1>>, <<14, 0, 1>>, <<2, 14, 1>>, <<14, 2, 2>>,
                             <<14, 2, 0>>},
                   p \in BOOLEAN, t \in BOOLEAN,
                   users \in UNION {[1..n -> Slots] : n \in 1..2}}
      full == ValidAdverts \cup others
  IN  full \cup UNION {{SubSeq(data, 1, k) : k \in 1..(Len(data) - 1)} : data \in full}

WeightOk == <<0, 164, 56>>        \* flags 0, weightRaw 14500
WeightTruncated == <<0, 164>>
NoValue == <<>>                   \* char.value is empty: the callback does nothing

Count3 == <<NUMBER_OF_STORED_RECORDS_RESPONSE, 0, 3, 0>>
Count0 == <<NUMBER_OF_STORED_RECORDS_RESPONSE, 0, 0, 0>>
Count256 == <<NUMBER_OF_STORED_RECORDS_RESPONSE, 0, 0, 1>>
CountTruncated == <<NUMBER_OF_STORED_RECORDS_RESPONSE, 0>>
ResponseSuccess == <<RESPONSE_CODE, 0, REPORT_STORED_RECORDS, 1>>
ResponseNoRecords == <<RESPONSE_CODE, 0, REPORT_STORED_RECORDS, 6>>
UnknownOpcode == <<9, 0, 0, 0>>

\* The monitor callback invoked with an error instead of a value.
ErrorEvent == <<0 - 1>>

\* Measurement payloads of every kind: blood pressure (systolic raw 0x0960;
\* with pulse; with date-time and pulse, systolic raw 0xF4B0), weight (plain;
\* with date-time), temperature (Celsius; Fahrenheit with date-time), body
\* composition (no field; body fat; muscle mass; both), and every proper
\* non-empty prefix of these.
MeasureInputs ==
  LET full == {<<0, 96, 9, 80, 0, 93, 0>>,
               <<4, 120, 0, 80, 0, 93, 0, 72, 0>>,
               <<2, 120, 0, 80, 0, 93, 0, 232, 7, 11, 3, 14, 30, 0>>,
               <<6, 176, 244, 80, 0, 93, 0, 232, 7, 11, 3, 14, 30, 0, 72, 0>>,
               WeightOk,
               <<2, 164, 56, 232, 7, 11, 3, 14, 30, 0>>,
               <<1, 0, 0, 20, 66>>,
               <<2, 0, 0, 196, 66, 232, 7, 11, 3, 14, 30, 0>>,
               <<0, 0>>,
               <<2, 0, 250, 0>>,
               <<32, 0, 44, 1>>,
               <<34, 0, 250, 0, 44, 1>>}
  IN  full \cup UNION {{SubSeq(b, 1, k) : k \in 1..(Len(b) - 1)} : b \in full}

\* Blood-pressure payloads without optional fields, the systolic SFLOAT
\* taking every 16-bit value.
SfloatInputs == {<<0, lo, hi, 80, 0, 93, 0>> : lo \in 0..255, hi \in 0..255}

\* ------------------------------------------------------------ configurations
\* "reconnect": repeated and overlapping connects of one device, without
\*              disconnect.
\* "scan":      scans and the scan timer around one connect.
\* "teardown":  disconnects of one connection of either device, with
\*              unsubscribes that throw and one notification.
\* "session":   one connection and a long exchange of well-formed events.
\* "racp":      one connection and a short exchange of events of every kind.
\* "discovery": scans and the advertisements they report, no connection.
Configs == {"reconnect", "scan", "teardown", "session", "racp", "discovery"}

ConnectLimit ==
  IF config = "reconnect" THEN MaxConnects
  ELSE IF config = "discovery" THEN 0 ELSE 1

DisconnectLimit ==
  IF config = "teardown" THEN MaxDisconnects
  ELSE IF config = "scan" THEN 1 ELSE 0

ScanLimit ==
  IF config \in {"scan", "discovery", "logLimit 1", "logLimit 3"}
    THEN MaxScans ELSE 0

SightingLimit ==
  IF config \in {"discovery", "logLimit 1", "logLimit 3"} THEN MaxSightings
  ELSE IF config = "advert" THEN 1 ELSE 0

\* What the scan callback is invoked with: manufacturer data, none
\* (NoValue), or an error (ErrorEvent).
ScanPayloads ==
  IF config = "advert" THEN AdvertInputs
  ELSE {AdvertOneUser, AdvertTwoUsers, AdvertTruncated, AdvertNotOmron, NoValue,
        ErrorEvent}

EventLimit ==
  IF config = "session" THEN MaxEventsSession
  ELSE IF config = "racp" THEN MaxEvents
  ELSE IF config \in {"teardown", "measure", "sfloat"} THEN 1 ELSE 0

DeviceIds ==
  IF config \in {"teardown", "racp"} THEN {1, 2}
  ELSE IF config = "measure" THEN {3}
  ELSE IF config = "sfloat" THEN {4} ELSE {1}

\* The handles whose remove() may throw in a call of removeAllSubscriptions.
MayThrowOnRemove == IF config = "teardown" THEN Range(subscriptions) ELSE {}

NotificationPayloads ==
  IF config = "measure" THEN MeasureInputs
  ELSE IF config = "sfloat" THEN SfloatInputs
  ELSE IF config = "racp" THEN {WeightOk, WeightTruncated, NoValue, ErrorEvent}
  ELSE IF config = "session" THEN {WeightOk, WeightTruncated}
  ELSE {WeightOk}

IndicationPayloads ==
  IF config = "racp"
    THEN {Count3, Count0, Count256, CountTruncated, ResponseSuccess,
          ResponseNoRecords, UnknownOpcode, ErrorEvent}
    ELSE {Count3, ResponseSuccess}

\* ------------------------------------------------------------ initial state
\* The hook after its mount effect ran: nothing connected, the adapter-state
\* subscription pushed on subscriptionsRef.
Init ==
  /\ connectedDevice = NoDevice
  /\ connectionState = Disconnected
  /\ measurementData = <<>>
  /\ logs = <<>>
  /\ subscriptions = <<AdapterHandle>>
  /\ scanTimeoutRef = FALSE
  /\ scanning = FALSE
  /\ timers = 0
  /\ monitors = {AdapterHandle}
  /\ link = [d \in {1, 2, 3, 4} |-> FALSE]
  /\ tasks = <<>>
  /\ disc = <<>>
  /\ writes = <<>>
  /\ bulkPending = 0
  /\ delivered = <<>>
  /\ calls = <<>>
  /\ fault = FALSE
  /\ devices = <<>>
  /\ sightings = <<>>
  /\ config \in Configs

\* ------------------------------------------------------------ scan
\* stopScan: manager.stopDeviceScan(), and the pending timer, if any, is
\* cleared and forgotten.
StopScan ==
  /\ scanning' = FALSE
  /\ timers' = IF scanTimeoutRef THEN Max(timers - 1, 0) ELSE timers
  /\ scanTimeoutRef' = FALSE

\* scanDevices() without its call of stopScan: the pending timer is left to
\* run beside the new one.
scanDevicesKeepsTimer ==
  /\ logs' = addLog(logs, "Starting device scan...")
  /\ devices' = <<>>
  /\ scanning' = TRUE
  /\ timers' = timers + 1
  /\ scanTimeoutRef' = TRUE
  /\ UNCHANGED <<connectedDevice, connectionState, measurementData, subscriptions,
                 monitors, link, tasks, disc, writes, bulkPending, delivered,
                 fault, config, sightings>>

\* scanDevices(): log, the discovered devices are cleared, a running scan is
\* stopped (its timer cleared), the scan and its timer are started.
scanDevices ==
  /\ logs' = addLog(logs, "Starting device scan...")
  /\ devices' = <<>>
  /\ scanning' = TRUE
  /\ timers' = (IF scanTimeoutRef THEN Max(timers - 1, 0) ELSE timers) + 1
  /\ scanTimeoutRef' = TRUE
  /\ UNCHANGED <<connectedDevice, connectionState, measurementData, subscriptions,
                 monitors, link, tasks, disc, writes, bulkPending, delivered,
                 fault, config, sightings>>

\* The scans started so far, by the application and by the adapter-state
\* listener.
ScansStarted == Count(calls, {"scan", PoweredOn})

\* The application calls scanDevices().
ScanCall ==
  /\ ScansStarted < ScanLimit
  /\ calls' = Append(calls, "scan")
  /\ scanDevices

\* The adapter reports the state PoweredOn to the listener the mount effect
\* registered with onStateChange (autoScanOnBluetoothOn is left at its
\* default, true): scanDevices().
AdapterPoweredOn ==
  /\ AdapterHandle \in monitors
  /\ ScansStarted < ScanLimit
  /\ calls' = Append(calls, PoweredOn)
  /\ scanDevices

\* The scan timer expires: stopScan() and a log entry.
ScanTimeout ==
  /\ timers > 0
  /\ scanning' = FALSE
  /\ timers' = timers - 1
  /\ scanTimeoutRef' = FALSE
  /\ logs' = addLog(logs, "Scan stopped")
  /\ UNCHANGED <<connectedDevice, connectionState, measurementData, subscriptions,
                 monitors, link, tasks, disc, writes, bulkPending, delivered,
                 calls, fault, config, devices,
                 sightings>>

\* setDevices(prev => ...) without the test of prev.find: every parsed
\* advertisement is appended.
AppendDevice(prev, id, parsed) == Append(prev, Enriched(id, parsed))

\* setDevices(prev => ...): a device whose id is in the list leaves the list
\* as it is; a new one is appended with its parsed fields.
AddDevice(prev, id, parsed) ==
  IF \E i \in 1..Len(prev) : prev[i].id = id THEN prev
  ELSE Append(prev, Enriched(id, parsed))

\* The callback of startDeviceScan for device id with manufacturer data
\* data, or with an error (then there is no device).
Advertise(id, data) ==
  /\ scanning
  /\ Len(sightings) < SightingLimit
  /\ data \in ScanPayloads
  /\ (data = ErrorEvent) = (id = NoDevice)
  /\ sightings' = Append(sightings, <<id, data>>)
  /\ LET parsed == parseOmronManufacturerData(data)
     IN  IF data = ErrorEvent
           THEN /\ logs' = addLog(logs, "Scan error")
                /\ UNCHANGED devices
         ELSE IF data = NoValue
           THEN UNCHANGED <<logs, devices>>
         ELSE IF parsed = NoAdvertisingInfo
           THEN /\ logs' = IF parseOmronManufacturerDataThrows(data)
                             THEN addLog(logs, "Parse error") ELSE logs
                /\ UNCHANGED devices
         ELSE /\ devices' = AddDevice(devices, id, parsed)
              /\ logs' = IF devices' = devices THEN logs
                         ELSE addLog(logs, "Found Omron device")
  /\ UNCHANGED <<connectedDevice, connectionState, measurementData, subscriptions,
                 scanTimeoutRef, scanning, timers, monitors, link, tasks, disc,
                 writes, bulkPending, delivered, calls, fault, config>>

\* ------------------------------------------------------------ subscriptions
\* removeAllSubscriptions: remove() is tried on every handle held and an
\* exception of it is swallowed; the list is emptied.  thrown are the handles
\* whose remove() threw: the transport may keep invoking their callback.
MonitorsAfterRemoveAll(thrown) == monitors \ (Range(subscriptions) \ thrown)

SubscriptionsAfterRemoveAll == <<>>

Handle(t, uuid) == [sess |-> t, char |-> uuid, dev |-> tasks[t].dev]

\* The loop of setupDataTransfer over one service's characteristics, with
\* setupNotification for each measurement characteristic; throwing are the
\* characteristics whose monitor() throws.  Gives the handles pushed and the
\* log entries, in order.
RECURSIVE setupNotifications(_, _, _)
setupNotifications(chars, t, throwing) ==
  IF chars = <<>> THEN [subs |-> <<>>, logs |-> <<>>]
  ELSE LET c == Head(chars)
           rest == setupNotifications(Tail(chars), t, throwing)
       IN  IF ~isMeasurementCharacteristic(c) THEN rest
           ELSE IF c \in throwing
             THEN [subs |-> rest.subs,
                   logs |-> <<"Failed to setup notification">> \o rest.logs]
             ELSE [subs |-> <<Handle(t, c)>> \o rest.subs,
                   logs |-> <<"Notifications enabled">> \o rest.logs]

\* ------------------------------------------------------------ connect
Task(pc, d, svc) == [pc |-> pc, dev |-> d, svc |-> svc]

Done(t) == Task("done", tasks[t].dev, 0)

\* connectToDevice without its call of stopScan.
ConnectCallKeepsScan(d, thrown) ==
  /\ Count(calls, {"connect"}) < ConnectLimit
  /\ calls' = Append(calls, "connect")
  /\ monitors' = MonitorsAfterRemoveAll(thrown)
  /\ subscriptions' = SubscriptionsAfterRemoveAll
  /\ measurementData' = <<>>
  /\ connectionState' = Connecting
  /\ logs' = addLog(logs, "Connecting to device...")
  /\ tasks' = Append(tasks, Task("connect", d, 0))
  /\ UNCHANGED <<connectedDevice, scanning, timers, scanTimeoutRef, link, disc,
                 writes, bulkPending, delivered, fault, config, devices,
                 sightings>>

\* connectToDevice(device) up to its first await: no condition on
\* connectionState; stopScan, removeAllSubscriptions, the measurements are
\* cleared, state Connecting, and manager.connectToDevice is requested.
ConnectCall(d, thrown) ==
  /\ Count(calls, {"connect"}) < ConnectLimit
  /\ calls' = Append(calls, "connect")
  /\ StopScan
  /\ monitors' = MonitorsAfterRemoveAll(thrown)
  /\ subscriptions' = SubscriptionsAfterRemoveAll
  /\ measurementData' = <<>>
  /\ connectionState' = Connecting
  /\ logs' = addLog(logs, "Connecting to device...")
  /\ tasks' = Append(tasks, Task("connect", d, 0))
  /\ UNCHANGED <<connectedDevice, link, disc, writes, bulkPending, delivered,
                 fault, config, devices,
                 sightings>>

\* A catch of connectToDevice that logs and leaves connectionState alone.
ConnectCatchLogsOnly(t) ==
  /\ logs' = addLog(logs, "Connection failed")
  /\ tasks' = [tasks EXCEPT ![t] = Done(t)]
  /\ UNCHANGED <<connectedDevice, connectionState, link>>

\* The catch of connectToDevice: log, state ConnectionFailed, the call ends.
ConnectCatch(t) ==
  /\ logs' = addLog(logs, "Connection failed")
  /\ connectionState' = ConnectionFailed
  /\ tasks' = [tasks EXCEPT ![t] = Done(t)]
  /\ UNCHANGED <<connectedDevice, link>>

\* manager.connectToDevice resolves.
ConnectResolve(t, ok) ==
  /\ tasks[t].pc = "connect"
  /\ IF ok
       THEN /\ link' = [link EXCEPT ![tasks[t].dev] = TRUE]
            /\ connectedDevice' = tasks[t].dev
            /\ connectionState' = Connected
            /\ logs' = addLog(logs, "Connected to device")
            /\ tasks' = [tasks EXCEPT ![t].pc = "discover"]
       ELSE ConnectCatch(t)
  /\ UNCHANGED <<measurementData, subscriptions, scanTimeoutRef, scanning, timers,
                 monitors, disc, writes, bulkPending, delivered, calls, fault, config, devices,
                 sightings>>

\* discoverAllServicesAndCharacteristics resolves; on success
\* setupDataTransfer starts and awaits device.services().
DiscoverResolve(t, ok) ==
  /\ tasks[t].pc = "discover"
  /\ ok => link[tasks[t].dev]
  /\ IF ok
       THEN /\ logs' = addLog(logs, "Services discovered")
            /\ tasks' = [tasks EXCEPT ![t].pc = "sdtServices"]
            /\ UNCHANGED <<connectedDevice, connectionState, link>>
       ELSE ConnectCatch(t)
  /\ UNCHANGED <<measurementData, subscriptions, scanTimeoutRef, scanning, timers,
                 monitors, disc, writes, bulkPending, delivered, calls, fault, config, devices,
                 sightings>>

\* ------------------------------------------------------------ setupDataTransfer
\* The catch of setupDataTransfer: a log entry; nothing is thrown on to
\* connectToDevice, which then ends.
SetupCatch(t) ==
  /\ logs' = addLog(logs, "Setup failed")
  /\ tasks' = [tasks EXCEPT ![t] = Done(t)]
  /\ UNCHANGED <<subscriptions, monitors, writes>>

\* requestStoredRecords(device) starts: it awaits device.services().
StartRequestStoredRecords(t) == [tasks EXCEPT ![t] = Task("rsrServices", tasks[t].dev, 0)]

\* device.services() of setupDataTransfer resolves.
SdtServicesResolve(t, ok) ==
  /\ tasks[t].pc = "sdtServices"
  /\ ok => link[tasks[t].dev]
  /\ IF ok
       THEN /\ tasks' = IF Len(Gatt(tasks[t].dev)) = 0
                          THEN StartRequestStoredRecords(t)
                          ELSE [tasks EXCEPT ![t] = Task("sdtChars", tasks[t].dev, 1)]
            /\ UNCHANGED <<logs, subscriptions, monitors, writes>>
       ELSE SetupCatch(t)
  /\ UNCHANGED <<connectedDevice, connectionState, measurementData, scanTimeoutRef,
                 scanning, timers, link, disc, bulkPending, delivered, calls,
                 fault, config, devices,
                 sightings>>

\* service.characteristics() of setupDataTransfer resolves for service
\* tasks[t].svc: every measurement characteristic of it is monitored, then
\* the next service is asked, or requestStoredRecords starts.
SdtCharsResolve(t, ok, throwing) ==
  /\ tasks[t].pc = "sdtChars"
  /\ ok => link[tasks[t].dev]
  /\ LET chars == Gatt(tasks[t].dev)[tasks[t].svc]
         done == setupNotifications(chars, t, throwing)
     IN  /\ throwing \subseteq {c \in Range(chars) : isMeasurementCharacteristic(c)}
         /\ ~ok => throwing = {}
         /\ IF ok
              THEN /\ subscriptions' = subscriptions \o done.subs
                   /\ monitors' = monitors \cup Range(done.subs)
                   /\ logs' = addLogs(logs, done.logs)
                   /\ tasks' = IF tasks[t].svc < Len(Gatt(tasks[t].dev))
                                 THEN [tasks EXCEPT ![t].svc = @ + 1]
                                 ELSE StartRequestStoredRecords(t)
                   /\ UNCHANGED writes
              ELSE SetupCatch(t)
  /\ UNCHANGED <<connectedDevice, connectionState, measurementData, scanTimeoutRef,
                 scanning, timers, link, disc, bulkPending, delivered, calls,
                 fault, config, devices,
                 sightings>>

\* ------------------------------------------------------------ requestStoredRecords
\* The catch of requestStoredRecords: a log entry, nothing thrown on.
RacpCatch(t) ==
  /\ logs' = addLog(logs, "RACP request failed")
  /\ tasks' = [tasks EXCEPT ![t] = Done(t)]
  /\ UNCHANGED <<subscriptions, monitors, writes>>

\* requestStoredRecords without its test of racpChar: the count request is
\* written although no control point was found.
RacpNotFoundWritesAnyway(t) ==
  /\ logs' = addLog(logs, "Requested number of stored records")
  /\ tasks' = [tasks EXCEPT ![t] = Done(t)]
  /\ writes' = Append(writes, <<REPORT_NUMBER_OF_STORED_RECORDS, ALL_RECORDS>>)
  /\ UNCHANGED <<subscriptions, monitors>>

\* if (!racpChar): a log entry and return.
RacpNotFound(t) ==
  /\ logs' = addLog(logs, "RACP characteristic not found")
  /\ tasks' = [tasks EXCEPT ![t] = Done(t)]
  /\ UNCHANGED <<subscriptions, monitors, writes>>

\* The command buffers written to the control point.
CountCommand == <<REPORT_NUMBER_OF_STORED_RECORDS, ALL_RECORDS>>
RecordsCommand == <<REPORT_STORED_RECORDS, ALL_RECORDS>>

\* device.services() of requestStoredRecords resolves.
RsrServicesResolve(t, ok) ==
  /\ tasks[t].pc = "rsrServices"
  /\ ok => link[tasks[t].dev]
  /\ IF ok
       THEN IF Len(Gatt(tasks[t].dev)) = 0
              THEN RacpNotFound(t)
              ELSE /\ tasks' = [tasks EXCEPT ![t] = Task("rsrChars", tasks[t].dev, 1)]
                   /\ UNCHANGED <<logs, subscriptions, monitors, writes>>
       ELSE RacpCatch(t)
  /\ UNCHANGED <<connectedDevice, connectionState, measurementData, scanTimeoutRef,
                 scanning, timers, link, disc, bulkPending, delivered, calls,
                 fault, config, devices,
                 sightings>>

\* service.characteristics() of requestStoredRecords resolves for service
\* tasks[t].svc.  With the control point found the loop breaks: it is
\* monitored (monitorThrows: monitor() throws), the handle is pushed and the
\* count request is written.
RsrCharsResolve(t, ok, monitorThrows) ==
  /\ tasks[t].pc = "rsrChars"
  /\ ok => link[tasks[t].dev]
  /\ LET d == tasks[t].dev
         found == RECORD_ACCESS_CONTROL_POINT \in Range(Gatt(d)[tasks[t].svc])
         sub == Handle(t, RECORD_ACCESS_CONTROL_POINT)
     IN  /\ monitorThrows => ok /\ found
         /\ IF ~ok \/ monitorThrows THEN RacpCatch(t)
            ELSE IF found
              THEN /\ subscriptions' = Append(subscriptions, sub)
                   /\ monitors' = monitors \cup {sub}
                   /\ writes' = Append(writes, CountCommand)
                   /\ tasks' = [tasks EXCEPT ![t] = Task("rsrWrite", d, 0)]
                   /\ UNCHANGED logs
              ELSE IF tasks[t].svc < Len(Gatt(d))
                THEN /\ tasks' = [tasks EXCEPT ![t].svc = @ + 1]
                     /\ UNCHANGED <<logs, subscriptions, monitors, writes>>
                ELSE RacpNotFound(t)
  /\ UNCHANGED <<connectedDevice, connectionState, measurementData, scanTimeoutRef,
                 scanning, timers, link, disc, bulkPending, delivered, calls,
                 fault, config, devices,
                 sightings>>

\* The count request's writeWithResponse resolves.
RsrWriteResolve(t, ok) ==
  /\ tasks[t].pc = "rsrWrite"
  /\ ok => link[tasks[t].dev]
  /\ logs' = addLog(logs, IF ok THEN "Requested number of stored records"
                                ELSE "RACP request failed")
  /\ tasks' = [tasks EXCEPT ![t] = Done(t)]
  /\ UNCHANGED <<connectedDevice, connectionState, measurementData, subscriptions,
                 scanTimeoutRef, scanning, timers, monitors, link, disc, writes,
                 bulkPending, delivered, calls, fault, config, devices,
                 sightings>>

\* ------------------------------------------------------------ notifications
\* setMeasurementData that keeps only the measurement just received.
ReplaceMeasurements(prev, data) == <<data>>

\* setMeasurementData(prev => [...prev, data])
AppendMeasurement(prev, data) == Append(prev, data)

\* The callback of setupNotification, for a value or an error on the
\* monitored measurement characteristic h.char.
Notify(h, payload) ==
  /\ h \in monitors
  /\ isMeasurementCharacteristic(h.char)
  /\ payload \in NotificationPayloads
  /\ Len(delivered) < EventLimit
  /\ delivered' = Append(delivered, <<h.char, payload>>)
  /\ LET data == parseMeasurementData(h.char, payload)
     IN  IF payload = ErrorEvent
           THEN /\ logs' = addLog(logs, "Notification error")
                /\ UNCHANGED measurementData
         ELSE IF payload = NoValue
           THEN UNCHANGED <<logs, measurementData>>
         ELSE IF data # NoMeasurement
           THEN /\ logs' = addLog(logs, "Received measurement")
                /\ measurementData' = AppendMeasurement(measurementData, data)
         ELSE /\ logs' = IF parseMeasurementDataThrows(h.char, payload)
                           THEN addLog(logs, "Parse error") ELSE logs
              /\ UNCHANGED measurementData
  /\ UNCHANGED <<connectedDevice, connectionState, subscriptions, scanTimeoutRef,
                 scanning, timers, monitors, link, tasks, disc, writes,
                 bulkPending, calls, fault, config, devices,
                 sightings>>

\* ------------------------------------------------------------ RACP
\* A read of handleRACPResponse goes beyond the buffer.
handleRACPResponseThrows(buffer) ==
  \/ ~CanRead(buffer, 0, 1)
  \/ /\ readUInt8(buffer, 0) = NUMBER_OF_STORED_RECORDS_RESPONSE
     /\ ~CanRead(buffer, 2, 2)
  \/ /\ readUInt8(buffer, 0) = RESPONSE_CODE
     /\ ~CanRead(buffer, 2, 1) \/ ~CanRead(buffer, 3, 1)

\* The test of the count without its lower bound.
RecordsToRequestAlways(numberOfRecords) == numberOfRecords >= 0

\* if (numberOfRecords > 0)
RecordsToRequest(numberOfRecords) == numberOfRecords > 0

\* handleRACPResponse calls requestAllStoredRecords for this indication.
RequestsAllStoredRecords(buffer) ==
  /\ ~handleRACPResponseThrows(buffer)
  /\ readUInt8(buffer, 0) = NUMBER_OF_STORED_RECORDS_RESPONSE
  /\ RecordsToRequest(readUInt16LE(buffer, 2))

\* The log entry of handleRACPResponse for an indication, <<>> for none
\* (the switch has no default case).
handleRACPResponseLog(buffer) ==
  IF handleRACPResponseThrows(buffer) THEN <<"RACP response error">>
  ELSE IF readUInt8(buffer, 0) = NUMBER_OF_STORED_RECORDS_RESPONSE
    THEN <<"Device has stored records">>
  ELSE IF readUInt8(buffer, 0) = RESPONSE_CODE
    THEN <<"RACP Response">>
  ELSE <<>>

\* The callback of the control-point monitor: an error is logged, a value is
\* handed to handleRACPResponse, which may write REPORT_STORED_RECORDS.
Indicate(h, payload) ==
  /\ h \in monitors
  /\ h.char = RECORD_ACCESS_CONTROL_POINT
  /\ payload \in IndicationPayloads
  /\ Len(delivered) < EventLimit
  /\ delivered' = Append(delivered, <<h.char, payload>>)
  /\ IF payload = ErrorEvent
       THEN /\ logs' = addLog(logs, "RACP error")
            /\ UNCHANGED <<writes, bulkPending>>
       ELSE /\ logs' = addLogs(logs, handleRACPResponseLog(payload))
            /\ IF RequestsAllStoredRecords(payload)
                 THEN /\ writes' = Append(writes, RecordsCommand)
                      /\ bulkPending' = bulkPending + 1
                 ELSE UNCHANGED <<writes, bulkPending>>
  /\ UNCHANGED <<connectedDevice, connectionState, measurementData, subscriptions,
                 scanTimeoutRef, scanning, timers, monitors, link, tasks, disc,
                 calls, fault, config, devices,
                 sightings>>

\* requestAllStoredRecords whose catch also sets connectionState.
RecordsWriteResolveEscalates(ok) ==
  /\ bulkPending > 0
  /\ bulkPending' = bulkPending - 1
  /\ logs' = addLog(logs, IF ok THEN "Requested all stored records"
                                ELSE "Failed to request records")
  /\ connectionState' = IF ok THEN connectionState ELSE ConnectionFailed
  /\ UNCHANGED <<connectedDevice, measurementData, subscriptions,
                 scanTimeoutRef, scanning, timers, monitors, link, tasks, disc,
                 writes, delivered, calls, fault, config, devices, sightings>>

\* The writeWithResponse of requestAllStoredRecords resolves: a log entry
\* either way.
RecordsWriteResolve(ok) ==
  /\ bulkPending > 0
  /\ bulkPending' = bulkPending - 1
  /\ logs' = addLog(logs, IF ok THEN "Requested all stored records"
                                ELSE "Failed to request records")
  /\ UNCHANGED <<connectedDevice, connectionState, measurementData, subscriptions,
                 scanTimeoutRef, scanning, timers, monitors, link, tasks, disc,
                 writes, delivered, calls, fault, config, devices,
                 sightings>>

\* ------------------------------------------------------------ disconnect
\* A call of disconnect is recorded with the branch it took: the early
\* return without a connected device, or the teardown.
DisconnectCalls == {"disconnect", "disconnect (no device)"}

\* disconnect() without its early return: with no connected device the read
\* of connectedDevice.id throws inside the try and the finally block runs.
DisconnectCallUnguarded(thrown) ==
  /\ Count(calls, DisconnectCalls) < DisconnectLimit
  /\ monitors' = MonitorsAfterRemoveAll(thrown)
  /\ subscriptions' = SubscriptionsAfterRemoveAll
  /\ IF connectedDevice = NoDevice
       THEN /\ calls' = Append(calls, "disconnect (no device)")
            /\ connectionState' = Disconnected
            /\ logs' = addLog(logs, "Disconnected from device")
            /\ UNCHANGED disc
       ELSE /\ calls' = Append(calls, "disconnect")
            /\ disc' = Append(disc, connectedDevice)
            /\ UNCHANGED <<connectionState, logs>>
  /\ UNCHANGED <<connectedDevice, measurementData, scanTimeoutRef, scanning, timers,
                 link, tasks, writes, bulkPending, delivered, fault, config, devices,
                 sightings>>

\* disconnect() up to its await: nothing at all without a connected device;
\* else removeAllSubscriptions and cancelDeviceConnection is requested.
DisconnectCall(thrown) ==
  /\ Count(calls, DisconnectCalls) < DisconnectLimit
  /\ IF connectedDevice = NoDevice
       THEN /\ thrown = {}
            /\ calls' = Append(calls, "disconnect (no device)")
            /\ UNCHANGED <<subscriptions, monitors, disc>>
       ELSE /\ calls' = Append(calls, "disconnect")
            /\ monitors' = MonitorsAfterRemoveAll(thrown)
            /\ subscriptions' = SubscriptionsAfterRemoveAll
            /\ disc' = Append(disc, connectedDevice)
  /\ UNCHANGED <<connectedDevice, connectionState, measurementData, logs,
                 scanTimeoutRef, scanning, timers, link, tasks, writes,
                 bulkPending, delivered, fault, config, devices,
                 sightings>>

RemoveAt(s, i) == SubSeq(s, 1, i - 1) \o SubSeq(s, i + 1, Len(s))

\* disconnect() with the state reset inside the try and no catch: an error of
\* cancelDeviceConnection leaves the state as it was and leaves the handler.
DisconnectResolveNoFinally(i, ok) ==
  /\ i \in 1..Len(disc)
  /\ ok => link[disc[i]]
  /\ disc' = RemoveAt(disc, i)
  /\ link' = IF ok THEN [link EXCEPT ![disc[i]] = FALSE] ELSE link
  /\ monitors' = IF ok THEN {h \in monitors : h.dev # disc[i]} ELSE monitors
  /\ IF ok
       THEN /\ connectedDevice' = NoDevice
            /\ connectionState' = Disconnected
            /\ logs' = addLog(logs, "Disconnected from device")
            /\ UNCHANGED fault
       ELSE /\ fault' = TRUE
            /\ UNCHANGED <<connectedDevice, connectionState, logs>>
  /\ UNCHANGED <<measurementData, subscriptions, scanTimeoutRef, scanning, timers,
                 tasks, writes, bulkPending, delivered, calls, config, devices,
                 sightings>>

\* cancelDeviceConnection of the i-th pending disconnect resolves; the catch
\* swallows its error and the finally block runs either way.
DisconnectResolve(i, ok) ==
  /\ i \in 1..Len(disc)
  /\ ok => link[disc[i]]
  /\ disc' = RemoveAt(disc, i)
  /\ link' = IF ok THEN [link EXCEPT ![disc[i]] = FALSE] ELSE link
  /\ monitors' = IF ok THEN {h \in monitors : h.dev # disc[i]} ELSE monitors
  /\ connectedDevice' = NoDevice
  /\ connectionState' = Disconnected
  /\ logs' = addLog(logs, "Disconnected from device")
  /\ UNCHANGED <<measurementData, subscriptions, scanTimeoutRef, scanning, timers,
                 tasks, writes, bulkPending, delivered, calls, fault, config, devices,
                 sightings>>

\* ------------------------------------------------------------ specification
Next ==
  \/ ScanCall
  \/ AdapterPoweredOn
  \/ ScanTimeout
  \/ \E id \in {NoDevice, 1, 2}, data \in ScanPayloads : Advertise(id, data)
  \/ \E d \in DeviceIds, thrown \in SUBSET MayThrowOnRemove : ConnectCall(d, thrown)
  \/ \E t \in 1..Len(tasks), ok \in BOOLEAN : ConnectResolve(t, ok)
  \/ \E t \in 1..Len(tasks), ok \in BOOLEAN : DiscoverResolve(t, ok)
  \/ \E t \in 1..Len(tasks), ok \in BOOLEAN : SdtServicesResolve(t, ok)
  \/ \E t \in 1..Len(tasks), ok \in BOOLEAN :
       \E throwing \in SUBSET {WEIGHT_MEASUREMENT} : SdtCharsResolve(t, ok, throwing)
  \/ \E t \in 1..Len(tasks), ok \in BOOLEAN : RsrServicesResolve(t, ok)
  \/ \E t \in 1..Len(tasks), ok \in BOOLEAN, monitorThrows \in BOOLEAN :
       RsrCharsResolve(t, ok, monitorThrows)
  \/ \E t \in 1..Len(tasks), ok \in BOOLEAN : RsrWriteResolve(t, ok)
  \/ \E h \in monitors, payload \in NotificationPayloads :
       Notify(h, payload)
  \/ \E h \in monitors, payload \in IndicationPayloads :
       Indicate(h, payload)
  \/ \E ok \in BOOLEAN : RecordsWriteResolve(ok)
  \/ \E thrown \in SUBSET MayThrowOnRemove : DisconnectCall(thrown)
  \/ \E i \in 1..Len(disc), ok \in BOOLEAN : DisconnectResolve(i, ok)

Spec == Init /\ [][Next]_vars

\* ------------------------------------------------------------ advertisement decoding
\* The advertisement decoder over AdvertInputs: a scan has been started
\* (the state after scanDevices) and the scan callback reports device 1 once.
InitAdvert ==
  /\ connectedDevice = NoDevice
  /\ connectionState = Disconnected
  /\ measurementData = <<>>
  /\ logs = <<"Starting device scan...">>
  /\ subscriptions = <<AdapterHandle>>
  /\ scanTimeoutRef = TRUE
  /\ scanning = TRUE
  /\ timers = 1
  /\ monitors = {AdapterHandle}
  /\ link = [d \in {1, 2, 3, 4} |-> FALSE]
  /\ tasks = <<>>
  /\ disc = <<>>
  /\ writes = <<>>
  /\ bulkPending = 0
  /\ delivered = <<>>
  /\ calls = <<"scan">>
  /\ fault = FALSE
  /\ devices = <<>>
  /\ sightings = <<>>
  /\ config = "advert"

NextAdvert ==
  /\ Len(sightings) < SightingLimit
  /\ \E data \in AdvertInputs : Advertise(1, data)

SpecAdvert == InitAdvert /\ [][NextAdvert]_vars

\* ------------------------------------------------------------ measurement decoding
\* The measurement decoders over MeasureInputs, and readSFloat over
\* SfloatInputs: device 3, or device 4, is connected and set up without a
\* failure, and one notification is delivered on one of its monitored
\* characteristics.
InitMeasure ==
  /\ connectedDevice = NoDevice
  /\ connectionState = Disconnected
  /\ measurementData = <<>>
  /\ logs = <<>>
  /\ subscriptions = <<AdapterHandle>>
  /\ scanTimeoutRef = FALSE
  /\ scanning = FALSE
  /\ timers = 0
  /\ monitors = {AdapterHandle}
  /\ link = [d \in {1, 2, 3, 4} |-> FALSE]
  /\ tasks = <<>>
  /\ disc = <<>>
  /\ writes = <<>>
  /\ bulkPending = 0
  /\ delivered = <<>>
  /\ calls = <<>>
  /\ fault = FALSE
  /\ devices = <<>>
  /\ sightings = <<>>
  /\ config \in {"measure", "sfloat"}

NextMeasure ==
  \/ \E d \in DeviceIds : ConnectCall(d, {})
  \/ \E t \in 1..Len(tasks) : ConnectResolve(t, TRUE)
  \/ \E t \in 1..Len(tasks) : DiscoverResolve(t, TRUE)
  \/ \E t \in 1..Len(tasks) : SdtServicesResolve(t, TRUE)
  \/ \E t \in 1..Len(tasks) : SdtCharsResolve(t, TRUE, {})
  \/ \E t \in 1..Len(tasks) : RsrServicesResolve(t, TRUE)
  \/ \E t \in 1..Len(tasks) : RsrCharsResolve(t, TRUE, FALSE)
  \/ /\ Len(delivered) < EventLimit
     /\ \E h \in monitors, payload \in NotificationPayloads : Notify(h, payload)

SpecMeasure == InitMeasure /\ [][NextMeasure]_vars

\* ------------------------------------------------------------ activity log
\* The activity log under the option logLimit: the hook is mounted with
\* logLimit 1 or 3, and scans, their timers and the advertisements they
\* report append to the log.
InitLog ==
  /\ connectedDevice = NoDevice
  /\ connectionState = Disconnected
  /\ measurementData = <<>>
  /\ logs = <<>>
  /\ subscriptions = <<AdapterHandle>>
  /\ scanTimeoutRef = FALSE
  /\ scanning = FALSE
  /\ timers = 0
  /\ monitors = {AdapterHandle}
  /\ link = [d \in {1, 2, 3, 4} |-> FALSE]
  /\ tasks = <<>>
  /\ disc = <<>>
  /\ writes = <<>>
  /\ bulkPending = 0
  /\ delivered = <<>>
  /\ calls = <<>>
  /\ fault = FALSE
  /\ devices = <<>>
  /\ sightings = <<>>
  /\ config \in {"logLimit 1", "logLimit 3"}

NextLog ==
  \/ ScanCall
  \/ ScanTimeout
  \/ \E id \in {NoDevice, 1, 2}, data \in ScanPayloads : Advertise(id, data)

SpecLog == InitLog /\ [][NextLog]_vars

\* ------------------------------------------------------------ steps
\* The step is a call of the operation op by the application.
IsCall(ops) == Len(calls') = Len(calls) + 1 /\ Last(calls') \in ops

\* The step completes a call of disconnect (its finally block has run).
DisconnectCompletes == Len(disc') < Len(disc)

\* A call of disconnect was made and none is pending, and connectToDevice
\* was not called since the last of them.
AfterDisconnect ==
  /\ disc = <<>>
  /\ \E i \in 1..Len(calls) :
       /\ calls[i] \in DisconnectCalls
       /\ \A j \in (i + 1)..Len(calls) : calls[j] # "connect"

\* ------------------------------------------------------------ claims
\* C1: a call of connect made while connectionState is Connecting or
\* Connected is rejected: it requests no transport connect, clears neither
\* the subscriptions nor the measurements and leaves connectionState as it is.
C1_ConnectRejectedWhileInFlight ==
  [][(IsCall({"connect"}) /\ connectionState \in {Connecting, Connected})
       => /\ tasks' = tasks
          /\ subscriptions' = subscriptions
          /\ measurementData' = measurementData
          /\ connectionState' = connectionState]_vars

\* C2: once a call of disconnect has completed, and until the next connect,
\* no subscription of a connection is held (the adapter-state subscription
\* of the mount effect is not one).
C2_NoSubscriptionHeldAfterDisconnect ==
  AfterDisconnect => \A k \in 1..Len(subscriptions) : subscriptions[k] = AdapterHandle

\* C3: when disconnect on an active connection completes, the accumulated
\* measurement list is empty, whether the transport disconnect succeeded or not.
C3_DisconnectClearsMeasurements ==
  [][DisconnectCompletes => measurementData' = <<>>]_vars

\* C4: disconnect on an active connection always ends with connectionState
\* Disconnected and no connected device, whether an unsubscribe threw or the
\* transport disconnect failed, and no exception leaves the handler.
C4_DisconnectAlwaysEndsDisconnected ==
  [][/\ IsCall({"disconnect"}) =>
          /\ ~fault'
          /\ subscriptions' = <<>>
          /\ Len(disc') = Len(disc) + 1
     /\ DisconnectCompletes =>
          /\ ~fault'
          /\ connectionState' = Disconnected
          /\ connectedDevice' = NoDevice]_vars

\* A disconnect has completed although an unsubscribe threw (its monitor is
\* still live, unheld) and the transport disconnect failed (the link is up).
C4_Witness ==
  /\ config = "teardown"
  /\ "disconnect" \in Range(calls)
  /\ disc = <<>>
  /\ connectionState = Disconnected
  /\ connectedDevice = NoDevice
  /\ \E d \in {1, 2} : link[d]
  /\ \E h \in monitors : h # AdapterHandle /\ h \notin Range(subscriptions)

\* C5: a disconnect called with no active connection changes nothing
\* (connection state, connected device, subscriptions, measurements, log),
\* makes no transport call and raises no fault.
C5_DisconnectWithoutConnectionIsNoOp ==
  [][(IsCall(DisconnectCalls) /\ connectedDevice = NoDevice)
       => UNCHANGED <<hookState, scanTimeoutRef, transportState, tasks, disc,
                      delivered, fault>>]_vars

\* Two consecutive disconnects were made, the first on an active connection
\* and completed, the second with no connection.
C5_Witness ==
  /\ \E i \in 1..(Len(calls) - 1) :
       calls[i] = "disconnect" /\ calls[i + 1] = "disconnect (no device)"
  /\ disc = <<>>
  /\ connectionState = Disconnected
  /\ connectedDevice = NoDevice

\* A step of the connect sequence of call t fails: the transport connect,
\* the discovery, the listing of services or characteristics, the
\* subscription to a measurement characteristic, or the start of the RACP
\* session (listing, monitoring or writing the control point).
EstablishmentFails(t) == ConnectResolve(t, FALSE) \/ DiscoverResolve(t, FALSE)

SubscribeFails(t) == SdtCharsResolve(t, TRUE, {WEIGHT_MEASUREMENT})

SetupFails(t) ==
  \/ SdtServicesResolve(t, FALSE)
  \/ SdtCharsResolve(t, FALSE, {})
  \/ RsrServicesResolve(t, FALSE)
  \/ RsrCharsResolve(t, FALSE, FALSE)
  \/ RsrCharsResolve(t, TRUE, TRUE)
  \/ RsrWriteResolve(t, FALSE)

\* After the failing step nothing of call t is requested again: no new call,
\* no write, and the call has ended.
NotRetried(t) ==
  /\ Len(tasks') = Len(tasks)
  /\ writes' = writes
  /\ tasks'[t].pc = "done"

\* C6: a failure of any step of the connect sequence sets connectionState to
\* ConnectionFailed, appends a log entry, and is not retried.
C6_AnyFailureSetsConnectionFailed ==
  [][\A t \in 1..Len(tasks) :
       (EstablishmentFails(t) \/ SubscribeFails(t) \/ SetupFails(t))
         => connectionState' = ConnectionFailed]_vars

\* C6, amended: a failure of the transport connect or of the discovery sets
\* connectionState to ConnectionFailed; a failure of a later step leaves
\* connectionState as it is; each appends a log entry and is not retried (a
\* characteristic whose subscription failed is skipped).
C6_EstablishmentFailureSetsConnectionFailed ==
  [][\A t \in 1..Len(tasks) :
       /\ EstablishmentFails(t) =>
            /\ connectionState' = ConnectionFailed
            /\ Last(logs') = "Connection failed"
            /\ NotRetried(t)
       /\ SetupFails(t) =>
            /\ connectionState' = connectionState
            /\ Last(logs') \in {"Setup failed", "RACP request failed"}
            /\ NotRetried(t)
       /\ SubscribeFails(t) =>
            /\ connectionState' = connectionState
            /\ Last(logs') = "Failed to setup notification"
            /\ Handle(t, WEIGHT_MEASUREMENT) \notin Range(subscriptions')
            /\ Len(tasks') = Len(tasks) /\ writes' = writes /\ tasks'[t] # tasks[t]]_vars

\* One call failed when its count request was written, leaving the state of
\* the other call's connect, and then that connect failed.
C6_Witness ==
  /\ logs = <<"RACP request failed", "Connection failed">>
  /\ connectionState = ConnectionFailed
  /\ Len(tasks) = 2
  /\ \A t \in 1..Len(tasks) : tasks[t].pc = "done"

\* The order of the steps of one call of connectToDevice.
Rank(pc) ==
  CASE pc = "connect" -> 1
    [] pc = "discover" -> 2
    [] pc = "sdtServices" -> 3
    [] pc = "sdtChars" -> 4
    [] pc = "rsrServices" -> 5
    [] pc = "rsrChars" -> 6
    [] pc = "rsrWrite" -> 7
    [] pc = "done" -> 8

\* C7: a connect performs its steps in order, each after the previous one
\* has finished: scan cancelled, subscriptions and measurements cleared and
\* state Connecting, with the transport connect requested; state Connected
\* when that has resolved; then discovery, the subscriptions to the
\* measurement characteristics, and only then the RACP session (control
\* point monitored, count request written).
C7_ConnectStepsInOrder ==
  [][/\ IsCall({"connect"}) =>
          /\ ~scanning' /\ ~scanTimeoutRef' /\ timers' = 0
          /\ subscriptions' = <<>>
          /\ measurementData' = <<>>
          /\ connectionState' = Connecting
          /\ Last(tasks').pc = "connect"
     /\ \A t \in 1..Len(tasks) :
          tasks'[t] # tasks[t] =>
            /\ \/ Rank(tasks'[t].pc) > Rank(tasks[t].pc)
               \/ tasks'[t].pc = tasks[t].pc /\ tasks'[t].svc = tasks[t].svc + 1
            /\ tasks'[t].pc # "done" => Rank(tasks'[t].pc) <= Rank(tasks[t].pc) + 1
     /\ (connectionState' = Connected /\ connectionState # Connected) =>
          \E t \in 1..Len(tasks) : tasks[t].pc = "connect" /\ tasks'[t].pc = "discover"
     /\ Len(subscriptions') > Len(subscriptions) =>
          \E t \in 1..Len(tasks) :
            /\ tasks[t].pc \in {"sdtChars", "rsrChars"}
            /\ tasks'[t] # tasks[t]
            /\ link[tasks[t].dev]
     /\ Len(writes') > Len(writes) /\ Last(writes') = CountCommand =>
          \E t \in 1..Len(tasks) :
            /\ tasks[t].pc = "rsrChars" /\ tasks'[t].pc = "rsrWrite"
            /\ Last(subscriptions') = Handle(t, RECORD_ACCESS_CONTROL_POINT)]_vars

\* A connect called during a scan went through all its steps: the scan is
\* stopped, both subscriptions are held and the count request is written.
C7_Witness ==
  /\ calls = <<"scan", "connect">>
  /\ tasks[1].pc = "done"
  /\ connectionState = Connected
  /\ ~scanning /\ timers = 0
  /\ subscriptions = <<Handle(1, WEIGHT_MEASUREMENT), Handle(1, RECORD_ACCESS_CONTROL_POINT)>>
  /\ writes = <<CountCommand>>

\* ------------------------------------------------------------ events
\* The delivered event is a notification the decoder turns into a measurement.
IsDecodable(e) ==
  /\ isMeasurementCharacteristic(e[1])
  /\ e[2] \notin {NoValue, ErrorEvent}
  /\ parseMeasurementData(e[1], e[2]) # NoMeasurement

\* The delivered event is a control-point indication with this opcode.
IsIndication(e, opCode) ==
  /\ e[1] = RECORD_ACCESS_CONTROL_POINT
  /\ e[2] # ErrorEvent
  /\ Len(e[2]) >= 1
  /\ e[2][1] = opCode

\* The step delivers payload on the control point.
Indicated(payload) ==
  /\ Len(delivered') = Len(delivered) + 1
  /\ Last(delivered') = <<RECORD_ACCESS_CONTROL_POINT, payload>>

\* count-response(3), three decodable measurement notifications,
\* response-code(success).
SessionScript ==
  << <<RECORD_ACCESS_CONTROL_POINT, Count3>>,
     <<WEIGHT_MEASUREMENT, WeightOk>>,
     <<WEIGHT_MEASUREMENT, WeightOk>>,
     <<WEIGHT_MEASUREMENT, WeightOk>>,
     <<RECORD_ACCESS_CONTROL_POINT, ResponseSuccess>> >>

\* C8: on a fresh connection the events count-response(n), n decodable
\* measurement notifications, response-code(success) leave exactly n
\* measurements accumulated (n = 3: the three decoded records, in order) and
\* the exchange over: the stored records were requested once.  In general
\* the list holds one measurement per decodable notification delivered.
C8_SessionAccumulatesEveryRecord ==
  calls = <<"connect">> =>
    /\ Len(measurementData) = Count(delivered, {e \in Range(delivered) : IsDecodable(e)})
    /\ delivered = SessionScript =>
         /\ measurementData = <<parseWeightData(WeightOk), parseWeightData(WeightOk),
                                parseWeightData(WeightOk)>>
         /\ writes = <<CountCommand, RecordsCommand>>

\* The exchange count-response(3), three records, response-code(success)
\* has taken place on the only connection, and every write has resolved.
C8_Witness ==
  /\ calls = <<"connect">>
  /\ delivered = SessionScript
  /\ Len(measurementData) = 3
  /\ tasks[1].pc = "done"
  /\ bulkPending = 0

\* C9: REPORT_STORED_RECORDS (operator ALL_RECORDS) is written only in
\* reaction to a NUMBER_OF_STORED_RECORDS_RESPONSE indication whose uint16-LE
\* count at offset 2 is positive; a count-response with count 0 causes no
\* write and adds no record.
C9_RecordsRequestedOnlyForPositiveCount ==
  [][/\ (Len(writes') > Len(writes) /\ Last(writes') = RecordsCommand) =>
          /\ writes' = Append(writes, <<REPORT_STORED_RECORDS, ALL_RECORDS>>)
          /\ Len(delivered') = Len(delivered) + 1
          /\ IsIndication(Last(delivered'), NUMBER_OF_STORED_RECORDS_RESPONSE)
          /\ Len(Last(delivered')[2]) >= 4
          /\ Last(delivered')[2][3] + 256 * Last(delivered')[2][4] > 0
     /\ Indicated(Count0) =>
          /\ writes' = writes
          /\ bulkPending' = bulkPending
          /\ measurementData' = measurementData]_vars

\* A count-response with count 0 was handled: the count request is the only
\* write and no record is accumulated.
C9_Witness ==
  /\ delivered = << <<RECORD_ACCESS_CONTROL_POINT, Count0>> >>
  /\ writes = <<CountCommand>>
  /\ bulkPending = 0
  /\ measurementData = <<>>

\* C10: once a RESPONSE_CODE indication has been handled, no later
\* indication causes a control-point write during that connection.
C10_ResponseCodeIsTerminal ==
  [][(/\ calls = <<"connect">>
      /\ \E i \in 1..Len(delivered) : IsIndication(delivered[i], RESPONSE_CODE))
       => writes' = writes]_vars

\* The GATT table of device d has a record access control point.
HasControlPoint(d) ==
  \E i \in 1..Len(Gatt(d)) : RECORD_ACCESS_CONTROL_POINT \in Range(Gatt(d)[i])

\* The step ends requestStoredRecords of call t at the end of its search of
\* the services, none of which has the control point.
SearchEndsWithoutControlPoint(t) ==
  /\ t \in 1..Len(tasks)
  /\ tasks[t].pc = "rsrChars"
  /\ ~HasControlPoint(tasks[t].dev)
  /\ tasks[t].svc = Len(Gatt(tasks[t].dev))
  /\ tasks'[t].pc = "done"

\* C11: when discovery finds no record access control point the RACP
\* exchange ends at once: a log entry is appended ('RACP characteristic not
\* found', or 'RACP request failed' when the last lookup itself failed), no
\* control-point write is made and no control-point subscription exists, and
\* the measurement subscriptions stay registered (until the application
\* disconnects) and keep appending every decodable measurement.
C11_NoControlPointEndsExchange ==
  [][/\ \A t \in 1..Len(tasks) : SearchEndsWithoutControlPoint(t) =>
          /\ logs' \in {addLog(logs, "RACP characteristic not found"),
                        addLog(logs, "RACP request failed")}
          /\ UNCHANGED <<writes, bulkPending, subscriptions, monitors,
                         connectionState, connectedDevice, fault>>
     /\ (calls = <<"connect">> /\ calls' = calls /\ ~HasControlPoint(tasks[1].dev)) =>
          /\ writes' = <<>>
          /\ \A h \in Range(subscriptions') \cup monitors' :
               h.char # RECORD_ACCESS_CONTROL_POINT
          /\ tasks[1].pc = "done" =>
               /\ Range(subscriptions') = Range(subscriptions)
               /\ monitors' = monitors
               /\ Len(measurementData') =
                    Count(delivered', {e \in Range(delivered') : IsDecodable(e)})]_vars

\* On a device without control point the search ended with the log entry
\* and, after it, a notification of the weight subscription was decoded and
\* appended.
C11_Witness ==
  /\ calls = <<"connect">>
  /\ tasks[1] = Task("done", 2, 0)
  /\ logs = <<"RACP characteristic not found", "Received measurement">>
  /\ Handle(1, WEIGHT_MEASUREMENT) \in Range(subscriptions) \cap monitors
  /\ measurementData = <<parseWeightData(WeightOk)>>
  /\ writes = <<>>

\* Some control-point indication with an opcode other than
\* NUMBER_OF_STORED_RECORDS_RESPONSE and RESPONSE_CODE has been delivered.
UnexpectedOpcodeDelivered ==
  \E i \in 1..Len(delivered) :
    /\ delivered[i][1] = RECORD_ACCESS_CONTROL_POINT
    /\ delivered[i][2] = UnknownOpcode

\* C12: a control-point indication with an unexpected opcode (neither 0x05
\* nor 0x06) appends a log entry and halts the exchange (no control-point
\* write follows it on that connection), raises no fault and leaves
\* connectionState unchanged.
C12_UnexpectedOpcodeLoggedAndHalts ==
  [][/\ Indicated(UnknownOpcode) =>
          /\ logs' # <<>>
          /\ logs' = addLog(logs, Last(logs'))
          /\ ~fault'
          /\ connectionState' = connectionState
     /\ (calls = <<"connect">> /\ UnexpectedOpcodeDelivered) => writes' = writes]_vars

\* C13: connectionState is changed only by connect (to Connecting at the
\* call, to Connected or ConnectionFailed when the transport connect or the
\* discovery resolves) and by disconnect (to Disconnected), and the
\* connected device only by those steps.  A scan error, an advertisement or
\* measurement that cannot be decoded, a notification error, a malformed
\* control-point indication and a failed control-point write leave both
\* unchanged; a failed write is not retried: a control-point write is made
\* only when the control point is found or an indication is delivered.
C13_OnlyConnectAndDisconnectChangeState ==
  [][LET ConnectStep ==
           \E t \in 1..Len(tasks) :
             tasks[t].pc \in {"connect", "discover"} /\ tasks'[t].pc # tasks[t].pc
         ScanFailure ==
           /\ Len(sightings') = Len(sightings) + 1
           /\ Last(sightings')[2] \in {ErrorEvent, AdvertTruncated}
         EventFailure ==
           /\ Len(delivered') = Len(delivered) + 1
           /\ Last(delivered')[2] \in {ErrorEvent, WeightTruncated, CountTruncated}
         WriteFailure ==
           \/ RecordsWriteResolve(FALSE)
           \/ \E t \in 1..Len(tasks) : RsrWriteResolve(t, FALSE)
     IN  /\ connectionState' # connectionState =>
              \/ IsCall({"connect"}) /\ connectionState' = Connecting
              \/ ConnectStep /\ connectionState' \in {Connected, ConnectionFailed}
              \/ DisconnectCompletes /\ connectionState' = Disconnected
         /\ connectedDevice' # connectedDevice => ConnectStep \/ DisconnectCompletes
         /\ (ScanFailure \/ EventFailure \/ WriteFailure) =>
              UNCHANGED <<connectionState, connectedDevice>>
         /\ WriteFailure => writes' = writes /\ bulkPending' <= bulkPending
         /\ writes' # writes =>
              \/ \E t \in 1..Len(tasks) : tasks[t].pc = "rsrChars"
              \/ Len(delivered') = Len(delivered) + 1]_vars

\* On a connection in state Connected a malformed control-point indication
\* was handled and the write of the bulk request failed; the state and the
\* connected device are as they were.
C13_Witness ==
  /\ connectionState = Connected
  /\ connectedDevice = 1
  /\ delivered = << <<RECORD_ACCESS_CONTROL_POINT, Count3>>,
                    <<RECORD_ACCESS_CONTROL_POINT, CountTruncated>> >>
  /\ logs = <<"RACP response error", "Failed to request records">>
  /\ writes = <<CountCommand, RecordsCommand>>
  /\ bulkPending = 0

\* C14: the discovered devices hold at most one entry per device id, for
\* any sequence of advertisements and scan starts.
C14_OneEntryPerDeviceId ==
  \A i, j \in 1..Len(devices) : devices[i].id = devices[j].id => i = j

\* Device 1 was sighted twice with valid Omron data, then device 2: two
\* entries, one per id.
C14_Witness ==
  /\ sightings = << <<1, AdvertOneUser>>, <<1, AdvertTwoUsers>>, <<2, AdvertOneUser>> >>
  /\ Len(devices) = 2
  /\ devices[1].id = 1
  /\ devices[2].id = 2

\* C15: when a valid Omron advertisement arrives for a device id already
\* among the discovered devices, the entry is updated in place: afterwards
\* its pairable, timeNotConfigured, numberOfUsers and users are those of the
\* latest advertisement.
C15_ResightingUpdatesEntry ==
  [][(/\ Len(sightings') = Len(sightings) + 1
      /\ Last(sightings')[2] \in {AdvertOneUser, AdvertTwoUsers}
      /\ \E i \in 1..Len(devices) : devices[i].id = Last(sightings')[1])
       => /\ Len(devices') = Len(devices)
          /\ \E i \in 1..Len(devices') :
               devices'[i] = Enriched(Last(sightings')[1],
                                      parseOmronManufacturerData(Last(sightings')[2]))]_vars

\* C16 (as stated): an advertisement whose payload is shorter than
\* 4 + 3*numberOfUsers bytes, or shorter than the 4-byte header, yields a
\* decode failure that is logged and not raised, and the device is not added.
C16_ShortAdvertisementLoggedAndExcluded ==
  [][Len(sightings') = Len(sightings) + 1 =>
       LET data == Last(sightings')[2]
       IN  (Len(data) < 4 \/ Len(data) < 4 + 3 * ((data[4] % 4) + 1)) =>
             /\ logs' = addLog(logs, "Parse error")
             /\ devices' = devices
             /\ ~fault']_vars

\* C16 (amended): manufacturer data that ends before the type byte, and
\* data with Omron's company id and type that is shorter than the 4-byte
\* header or than 4 + 3*numberOfUsers bytes, yields a decode failure that is
\* logged ('Parse error') and not raised, and adds no device.  Data of three
\* bytes or more without Omron's company id and type is rejected as not
\* Omron's, whatever its length: no log entry, no device added.
C16_ShortOmronAdvertisementLoggedAndExcluded ==
  [][Len(sightings') = Len(sightings) + 1 =>
       LET data == Last(sightings')[2]
           omron == data[1] = 14 /\ data[2] = 2 /\ data[3] = 1
           short == Len(data) < 4 \/ Len(data) < 4 + 3 * ((data[4] % 4) + 1)
       IN  /\ (Len(data) < 3 \/ (omron /\ short)) =>
                /\ logs' = addLog(logs, "Parse error")
                /\ devices' = devices
                /\ ~fault'
           /\ (Len(data) >= 3 /\ ~omron) =>
                /\ UNCHANGED <<logs, devices>>
                /\ ~fault']_vars

\* An Omron advertisement announcing two users and holding one slot was
\* reported: logged, and no device discovered.
C16_Witness ==
  /\ sightings = << <<1, <<14, 2, 1, 1, 2, 1, 0>> >> >>
  /\ logs = <<"Starting device scan...", "Parse error">>
  /\ devices = <<>>
  /\ ~fault

\* C17: the advertisement decoder returns "not Omron" (null) for every
\* payload unless bytes 0-1 are 0x020E little-endian (0E 02) and byte 2 is
\* 0x01; only a payload passing both tests can add a discovered device.
C17_OnlyOmronDataIsDecoded ==
  [][Len(sightings') = Len(sightings) + 1 =>
       LET data == Last(sightings')[2]
           passes == Len(data) >= 3 /\ data[1] = 14 /\ data[2] = 2 /\ data[3] = 1
       IN  /\ ~passes =>
                /\ parseOmronManufacturerData(data) = NoAdvertisingInfo
                /\ devices' = devices
           /\ devices' # devices => passes]_vars

\* A complete advertisement with Omron's company id and another type was
\* reported: nothing discovered, nothing logged.
C17_Witness ==
  /\ sightings = << <<1, <<14, 2, 2, 8, 2, 1, 0>> >> >>
  /\ devices = <<>>
  /\ logs = <<"Starting device scan...">>

\* C18: decoding inverts encoding: for every pairable and timeNotConfigured
\* flag, one to four users and per-user sequence number and record count,
\* decoding the encoded payload gives the same flags, the same number of
\* users and the same user slots, indexed 1..numberOfUsers in layout order;
\* the discovered device carries them.
C18_DecodeInvertsEncode ==
  [][Len(sightings') = Len(sightings) + 1 =>
       LET data == Last(sightings')[2]
           parsed == parseOmronManufacturerData(data)
       IN  \A n \in 1..4 :
             Len(data) = 4 + 3 * n =>
               \A p \in BOOLEAN, t \in BOOLEAN, users \in [1..n -> Slots] :
                 data = encodeAdvertisement(<<14, 2, 1>>, p, t, users) =>
                   /\ parsed # NoAdvertisingInfo
                   /\ parsed.pairable = p
                   /\ parsed.timeNotConfigured = t
                   /\ parsed.numberOfUsers = n
                   /\ DOMAIN parsed.users = 1..n
                   /\ \A i \in 1..n :
                        parsed.users[i] =
                          [index |-> i,
                           lastSequenceNumber |-> users[i].lastSequenceNumber,
                           numberOfRecords |-> users[i].numberOfRecords]
                   /\ devices' = <<Enriched(1, parsed)>>]_vars

\* An advertisement of four users, pairable, time not configured, was
\* decoded into a discovered device with its four slots.
C18_Witness ==
  /\ Len(sightings) = 1
  /\ Len(devices) = 1
  /\ devices[1].pairable
  /\ devices[1].timeNotConfigured
  /\ devices[1].numberOfUsers = 4
  /\ devices[1].users[1] = [index |-> 1, lastSequenceNumber |-> 258, numberOfRecords |-> 0]
  /\ devices[1].users[4] = [index |-> 4, lastSequenceNumber |-> 65535, numberOfRecords |-> 255]
  /\ sightings[1][2] = <<14, 2, 1, 15, 2, 1, 0, 0, 0, 255, 255, 255, 0, 255, 255, 255>>

\* C19 (as stated): the SFLOAT with raw 16-bit value 0x0960 decodes to
\* 2400.0 (here the systolic value of a blood-pressure notification).
C19_Sfloat0960Is2400 ==
  [][(/\ Len(delivered') = Len(delivered) + 1
      /\ Last(delivered') = <<BLOOD_PRESSURE_MEASUREMENT, <<0, 96, 9, 80, 0, 93, 0>> >>)
       => /\ Len(measurementData') = Len(measurementData) + 1
          /\ LET value == Last(measurementData').systolic
             IN  value.exponent \in 0..3 /\ value.mantissa * 10 ^ value.exponent = 2400]_vars

\* C19 (amended): the SFLOAT with raw 16-bit value 0x0960 decodes to
\* -1696.0: its low 12 bits 0x960 are -1696 as a two's-complement 12-bit
\* integer and its high 4 bits are the exponent 0.
C19_Sfloat0960IsMinus1696 ==
  [][(/\ Len(delivered') = Len(delivered) + 1
      /\ Last(delivered') = <<BLOOD_PRESSURE_MEASUREMENT, <<0, 96, 9, 80, 0, 93, 0>> >>)
       => /\ Len(measurementData') = Len(measurementData) + 1
          /\ Last(measurementData').systolic = [mantissa |-> 0 - 1696, exponent |-> 0]]_vars

\* The blood-pressure notification with systolic raw 0x0960, diastolic raw
\* 0x0050 and mean raw 0x005D was decoded and appended.
C19_Witness ==
  /\ delivered = << <<BLOOD_PRESSURE_MEASUREMENT, <<0, 96, 9, 80, 0, 93, 0>> >> >>
  /\ Len(measurementData) = 1
  /\ measurementData[1].type = "blood_pressure"
  /\ measurementData[1].systolic.mantissa < 0
  /\ measurementData[1].diastolic = [mantissa |-> 80, exponent |-> 0]
  /\ measurementData[1].meanArterialPressure = [mantissa |-> 93, exponent |-> 0]
  /\ measurementData[1].pulse = Absent

\* C20: every failure to decode a measurement payload (a buffer too short
\* for the fields its flags announce, or a characteristic that is none of
\* the four recognized ones) gives an absent result, appends a log entry,
\* appends no measurement and raises no fault.
C20_EveryDecodeFailureIsLogged ==
  [][(/\ Len(delivered') = Len(delivered) + 1
      /\ parseMeasurementData(Last(delivered')[1], Last(delivered')[2]) = NoMeasurement)
       => /\ logs' # <<>>
          /\ logs' = addLog(logs, Last(logs'))
          /\ measurementData' = measurementData
          /\ ~fault']_vars

\* C21: with a configured logLimit of L >= 1 the activity log never holds
\* more than L entries.
C21_LogHoldsAtMostLogLimit == Len(logs) <= logLimit


\* C22: at most one scan timer is pending at any time; the expiry of the scan
\* timer stops the scan and leaves connectionState, the connected device,
\* the connects and control-point writes in flight, the subscriptions, the
\* measurements and the discovered devices as they are; and a device is
\* added to the discovered devices only while a scan runs.
C22_ScanTimerStopsScanOnly ==
  [][LET Expires == timers' = timers - 1 /\ calls' = calls
     IN  /\ timers' <= 1
         /\ Expires =>
               /\ ~scanning'
               /\ UNCHANGED <<connectionState, connectedDevice, tasks, disc,
                              writes, bulkPending, subscriptions, monitors,
                              measurementData, devices, link>>
         /\ Len(devices') > Len(devices) => scanning]_vars

\* The timer of a scan started during a connect expired while the connect
\* was in flight.
C22_Witness ==
  /\ logs # <<>> /\ Last(logs) = "Scan stopped"
  /\ ~scanning /\ timers = 0
  /\ \E t \in 1..Len(tasks) : tasks[t].pc # "done"

\* C23: for every 16-bit raw value, the SFLOAT decoded from it is
\* m * 10^e with m the low 12 bits read as a two's-complement integer
\* (-2048..2047) and e the high 4 bits read as a two's-complement integer
\* (-8..7); raw 0xF4B0 decodes to 1200 * 10^-1, which is 120.
C23_SfloatIsTwosComplementMantissaAndExponent ==
  \A i \in 1..Len(measurementData) :
    (config = "sfloat" /\ measurementData[i].type = "blood_pressure") =>
      LET buffer == delivered[i][2]
          raw == buffer[2] + 256 * buffer[3]
          m == measurementData[i].systolic.mantissa
          e == measurementData[i].systolic.exponent
      IN  /\ m \in (0 - 2048)..2047
          /\ e \in (0 - 8)..7
          /\ (m % 4096) + 4096 * (e % 16) = raw
          /\ raw = 62640 => (m = 120 * 10 /\ e = 0 - 1)

\* The systolic value 0xF4B0 was delivered and decoded, mantissa 1200 and
\* exponent -1.
C23_Witness ==
  /\ config = "sfloat"
  /\ delivered = << <<BLOOD_PRESSURE_MEASUREMENT, <<0, 176, 244, 80, 0, 93, 0>>>> >>
  /\ Len(measurementData) = 1
  /\ measurementData[1].systolic = [mantissa |-> 1200, exponent |-> 0 - 1]

\* C24: an optional field of a decoded measurement is present exactly when
\* its flag bit is set, and is read after the optional fields before it.
\* Blood pressure: the pulse is present iff bit2 is set, and is the SFLOAT at
\* byte 14 when bit1 (the date-time) is set, at byte 7 when it is clear.
\* Body composition: the body fat is present iff bit1 is set and is the
\* uint16 at byte 2; the muscle mass is present iff bit5 is set and is the
\* uint16 at byte 4 when bit1 is set, at byte 2 when it is clear.
C24_OptionalFieldsFollowFlagBits ==
  \A i \in 1..Len(measurementData) :
    config = "measure" =>
      LET data == measurementData[i]
          buffer == delivered[i][2]
          Bit(flags, n) == (flags \div 2 ^ n) % 2 = 1
          UInt16At(byte) == buffer[byte + 1] + 256 * buffer[byte + 2]
      IN  /\ data.type = "blood_pressure" =>
                LET flags == buffer[1]
                    at == IF Bit(flags, 1) THEN 14 ELSE 7
                IN  /\ (data.pulse # Absent) = Bit(flags, 2)
                    /\ Bit(flags, 2) => data.pulse = readSFloat(buffer, at)
          /\ data.type = "body_composition" =>
                LET flags == UInt16At(0)
                    at == IF Bit(flags, 1) THEN 4 ELSE 2
                IN  /\ (data.bodyFatPercentage # Absent) = Bit(flags, 1)
                    /\ Bit(flags, 1) =>
                          data.bodyFatPercentage = Tenths(UInt16At(2))
                    /\ (data.muscleMass # Absent) = Bit(flags, 5)
                    /\ Bit(flags, 5) => data.muscleMass = Tenths(UInt16At(at))

\* A blood pressure with date-time and pulse was decoded with the pulse read
\* at byte 14 (72, where byte 7 holds the year 2024).
C24_Witness ==
  /\ config = "measure"
  /\ delivered = << <<BLOOD_PRESSURE_MEASUREMENT,
                      <<6, 176, 244, 80, 0, 93, 0, 232, 7, 11, 3, 14, 30, 0,
                        72, 0>>>> >>
  /\ Len(measurementData) = 1
  /\ measurementData[1].pulse = [mantissa |-> 72, exponent |-> 0]

\* C25: in every reachable state a connected device is held exactly when
\* connectionState is Connected.
C25_DeviceHeldExactlyWhenConnected ==
  (connectedDevice # NoDevice) = (connectionState = Connected)

\* C26: once a call of disconnect that found a connected device has
\* completed, no control-point write is issued until the next call of
\* connectToDevice.
C26_NoWriteAfterDisconnect ==
  [][LET TornDown ==
           /\ disc = <<>>
           /\ \E i \in 1..Len(calls) :
                /\ calls[i] = "disconnect"
                /\ \A j \in (i + 1)..Len(calls) : calls[j] # "connect"
     IN  (TornDown /\ calls' = calls) => writes' = writes]_vars

\* C27: the adapter-state listener registered by the mount effect stays
\* registered while the hook is mounted (it is mounted in every state of a
\* run): connect and disconnect do not release it.
C27_AdapterListenerStaysRegistered == AdapterHandle \in monitors

====
